---- MODULE Spec2Model ----
(***************************************************************************)
(* Model of directord/drivers/grpcd.py: the per-target queue registries    *)
(* (QueueBase, MessageQueue, JobQueue), the gRPC servicer that exposes     *)
(* them (MessageServiceServicer), the client wrapper (MessageServiceClient)*)
(* and the transport Driver.                                               *)
(*                                                                         *)
(* A thread is one synchronous caller together with the service handler    *)
(* that runs its request on the server's worker pool.  The registry        *)
(* methods are modelled at the granularity of their locked section and of  *)
(* the unlocked dictionary lookup and queue operation that follow it.      *)
(***************************************************************************)
EXTENDS Integers, Sequences, FiniteSets, TLC

(* ------------------------------ bounds -------------------------------- *)
MaxCalls == 4            \* requests the service handles in one run
WritesEach == 2          \* envelopes each concurrent writer enqueues
MaxDriverCalls == 2      \* driver and client calls that reach the stub
MaxInits == 2            \* servers and clients one driver creates in a run

(* ----------------------------- constants ------------------------------ *)
server_identity == "DIRECTORD_SERVER"
Targets == {server_identity, "agent-1"}
Kinds == {"message", "job"}

(* The registry objects a process can come to hold: per class the object  *)
(* the first instance() call creates, named after its class, and the one  *)
(* a second call creates when it too finds _instance unset.               *)
Second(k) == IF k = "message" THEN "message-2" ELSE "job-2"
Registries == Kinds \cup {Second(k) : k \in Kinds}
ClassOf(r) == IF r \in {"message", "message-2"} THEN "message" ELSE "job"

(* The concurrent callers, each with the service handler of its request:  *)
(* the coordinator and one agent.                                         *)
Threads == Targets

(* Python values: None, booleans, objects and raised exceptions.          *)
None == "<None>"
PyNone == [t |-> "None"]
PyBool(b) == [t |-> "bool", v |-> b]
PyObj(o) == [t |-> "obj", v |-> o]
PyRaise(e) == [t |-> "raise", v |-> e]
IsRaise(r) == r.t = "raise"

(* protobuf string fields: an unset (None) field reads back as "".        *)
ProtoStr(v) == IF v = None THEN "" ELSE v

MessageData(identity, msg_id, control, command, data, info, stderr, stdout) ==
    [identity |-> ProtoStr(identity), msg_id |-> ProtoStr(msg_id),
     control |-> ProtoStr(control), command |-> ProtoStr(command),
     data |-> ProtoStr(data), info |-> ProtoStr(info),
     stderr |-> ProtoStr(stderr), stdout |-> ProtoStr(stdout)]

MsgIds == <<"m1", "m2", "m3", "m4">>

(* The envelopes raw requests carry.                                      *)
Envelopes ==
    { MessageData("agent-1", "m1", "c", "run", "d", None, None, None),
      MessageData(server_identity, "m2", None, None, None, None, None, None) }

(* ------------------------------- state -------------------------------- *)
NoObj == 0
MaxObj == Cardinality(Registries) * Cardinality(Targets) + Cardinality(Threads)
ObjIds == 1..MaxObj

VARIABLES
    data_queue,   \* data_queue[k][t]: the queue.Queue object of target t in
                  \* registry k, NoObj when t is not a key of _data_queue
    cls_instance, \* cls_instance[k]: _instance of registry class k, None
                  \* or a registry object
    registry,     \* registry[r]: registry object r is "absent", "new"
                  \* (created, _setup not yet run) or "ready"
    heap,         \* heap[o]: the queue.Queue objects; items is the queue,
                  \* puts/gots the history of its put() and get() calls
    dropped,      \* dropped[k][t]: t was a key when registry k was purged
                  \* and has not been written since
    pc,           \* pc[w]: position of thread w
    rpc,          \* rpc[w]: the service method thread w is running
    q,            \* q[w]: the registry object the handler of w works on
    arg,          \* arg[w]: request of w: target and data
    ref,          \* ref[w]: the queue object w looked up
    ret,          \* ret[w]: value returned by the registry method
    resp,         \* resp[w]: the response of the service method
    drv_server,   \* drv_server[w]: Driver._server of the driver of w is set
    drv_client,   \* drv_client[w]: Driver._client of the driver of w is set
    client,       \* client[w]: the MessageServiceClient object w works with
    made,         \* made[w]: how many grpc servers and how many client
                  \* channels the driver of w has created so far
    call,         \* call[w]: the driver or client call w is running
    last,         \* the driver or client call that completed last: its
                  \* caller, the outcome rres of its stub call (None when
                  \* the stub was not called), what the client method
                  \* made of it (cres) and what the caller got (result)
    clean,        \* a PurgeQueues began purging and no add_queue has
                  \* entered its locked section since
    nsent,        \* nsent[w]: envelopes writer w has handed to the service
    ncalls        \* requests handled so far

svars == <<data_queue, heap, dropped, pc, rpc, q, arg, ref, ret, resp,
           clean, nsent, ncalls>>
dvars == <<drv_server, drv_client, client, made, call, last>>
ivars == <<cls_instance, registry>>
vars == <<svars, dvars, ivars>>

NoQueue == [items |-> <<>>, puts |-> <<>>, gots |-> <<>>]
NoArg == [target |-> None, data |-> PyNone]

(* MessageServiceClient: no object, after connect(), after close().       *)
(* closes counts the close() calls on the object, up to two.              *)
NoClient == [exists |-> FALSE, channel |-> FALSE, stub |-> FALSE,
             closes |-> 0]
Connected == [exists |-> TRUE, channel |-> TRUE, stub |-> TRUE,
              closes |-> 0]

NoKw == [target |-> None, identity |-> None, msg_id |-> None,
         control |-> None, command |-> None, data |-> None, info |-> None,
         stderr |-> None, stdout |-> None]
NoCall == [layer |-> "-", op |-> "-", cop |-> "-", target |-> None,
           data |-> PyNone, kw |-> NoKw, interval |-> 0, constant |-> 0]
NoLast == [who |-> None, call |-> NoCall, rres |-> PyNone, cres |-> PyNone,
           result |-> PyNone, slept |-> 0]

Init ==
    /\ data_queue = [k \in Registries |-> [t \in Targets |-> NoObj]]
    /\ heap = [o \in ObjIds |-> NoQueue]
    /\ dropped = [k \in Registries |-> [t \in Targets |-> FALSE]]
    /\ pc = [w \in Threads |-> "idle"]
    /\ rpc = [w \in Threads |-> "-"]
    /\ q = [w \in Threads |-> "-"]
    /\ arg = [w \in Threads |-> NoArg]
    /\ ref = [w \in Threads |-> NoObj]
    /\ ret = [w \in Threads |-> PyNone]
    /\ resp = [w \in Threads |-> PyNone]
    /\ drv_server = [w \in Threads |-> FALSE]
    /\ drv_client = [w \in Threads |-> FALSE]
    /\ client = [w \in Threads |-> NoClient]
    /\ made = [w \in Threads |-> [server |-> 0, client |-> 0]]
    /\ call = [w \in Threads |-> NoCall]
    /\ last = NoLast
    /\ clean = FALSE
    /\ nsent = [w \in Threads |-> 0]
    /\ ncalls = 0
    /\ cls_instance = [k \in Kinds |-> k]
    /\ registry = [r \in Registries |-> IF r \in Kinds THEN "ready" ELSE "absent"]

(* A process in which no registry has been asked for yet.                 *)
InitInstance ==
    /\ data_queue = [k \in Registries |-> [t \in Targets |-> NoObj]]
    /\ heap = [o \in ObjIds |-> NoQueue]
    /\ dropped = [k \in Registries |-> [t \in Targets |-> FALSE]]
    /\ pc = [w \in Threads |-> "idle"]
    /\ rpc = [w \in Threads |-> "-"]
    /\ q = [w \in Threads |-> "-"]
    /\ arg = [w \in Threads |-> NoArg]
    /\ ref = [w \in Threads |-> NoObj]
    /\ ret = [w \in Threads |-> PyNone]
    /\ resp = [w \in Threads |-> PyNone]
    /\ drv_server = [w \in Threads |-> FALSE]
    /\ drv_client = [w \in Threads |-> FALSE]
    /\ client = [w \in Threads |-> NoClient]
    /\ made = [w \in Threads |-> [server |-> 0, client |-> 0]]
    /\ call = [w \in Threads |-> NoCall]
    /\ last = NoLast
    /\ clean = FALSE
    /\ nsent = [w \in Threads |-> 0]
    /\ ncalls = 0
    /\ cls_instance = [k \in Kinds |-> None]
    /\ registry = [r \in Registries |-> "absent"]

(* ------------------------- queue.Queue objects ------------------------ *)
Referenced(dq, rf) ==
    {dq[k][t] : k \in Registries, t \in Targets} \cup {rf[w] : w \in Threads}

(* A queue object nothing refers to is garbage: its slot is cleared.      *)
Collect(hp, dq, rf) ==
    [o \in ObjIds |-> IF o \in Referenced(dq, rf) THEN hp[o] ELSE NoQueue]

NewObj == CHOOSE o \in ObjIds : o \notin Referenced(data_queue, ref)

(* queue.Queue.put, .get and .empty                                       *)
QueuePut(qu, e) == [qu EXCEPT !.items = Append(@, e)]
QueueFront_last(qu) == qu.items[Len(qu.items)]
QueueFront(qu) == Head(qu.items)
QueueGet(qu) == [qu EXCEPT !.items = Tail(@)]
QueueEmpty(qu) == qu.items = <<>>

(* ----------------------- MessageServiceServicer ----------------------- *)
KindOf_message(m) == "message"
KindOf(m) == IF m \in {"GetMessage", "PutMessage", "MessageCheck"}
             THEN "message" ELSE "job"

EmptyData == MessageData(None, None, None, None, None, None, None, None)

(* The response each handler builds from what the registry returned       *)
(* (lines 249-258, 276-285, 304-306, 325-327, 332-335, 340-343, 351-353); *)
(* a handler that raised ends its call with an RpcError at the client.    *)
Response(m, t, r) ==
    CASE IsRaise(r) -> PyRaise("RpcError")
      [] m \in {"GetMessage", "GetJob"} ->
            IF r = PyNone
            THEN PyObj([status |-> FALSE, target |-> t, data |-> EmptyData])
            ELSE PyObj([status |-> TRUE, target |-> t, data |-> r.v])
      [] m \in {"PutMessage", "PutJob"} -> PyObj([result |-> TRUE])
      [] m \in {"MessageCheck", "JobCheck"} ->
            PyObj([target |-> t, has_data |-> r.v])
      [] OTHER -> PyObj([result |-> TRUE])

(* The registry method returned r (or raised): the handler of w builds    *)
(* its response and ends.                                                 *)
Finish(w, r) ==
    /\ ret' = [ret EXCEPT ![w] = r]
    /\ resp' = [resp EXCEPT ![w] = Response(rpc[w], arg[w].target, r)]
    /\ pc' = [pc EXCEPT ![w] = "done"]

(* ------------------------------ QueueBase ----------------------------- *)
(* add_queue, lines 172-174: create the target's queue under the lock.    *)
add_queue_locked(w) ==
    /\ pc[w] = "aq_lock"
    /\ LET k == q[w]
           t == arg[w].target
       IN  IF data_queue[k][t] = NoObj
           THEN /\ data_queue' = [data_queue EXCEPT ![k][t] = NewObj]
                /\ dropped' = [dropped EXCEPT ![k][t] = FALSE]
           ELSE UNCHANGED <<data_queue, dropped>>
    /\ pc' = [pc EXCEPT ![w] = "aq_lookup"]
    /\ clean' = FALSE
    /\ UNCHANGED <<heap, rpc, q, arg, ref, ret, resp, nsent, ncalls, dvars, ivars>>

add_queue_lookup_any_target(w) ==
    /\ pc[w] = "aq_lookup"
    /\ LET o == data_queue[q[w]][CHOOSE t \in Targets :
                                   data_queue[q[w]][t] # NoObj]
       IN  /\ ref' = [ref EXCEPT ![w] = o]
           /\ pc' = [pc EXCEPT ![w] = "aq_put"]
           /\ UNCHANGED <<ret, resp>>
    /\ UNCHANGED <<data_queue, heap, dropped, rpc, q, arg, clean, nsent, ncalls, dvars, ivars>>

(* add_queue, line 175: self._data_queue[target], outside the lock.       *)
add_queue_lookup(w) ==
    /\ pc[w] = "aq_lookup"
    /\ LET o == data_queue[q[w]][arg[w].target]
       IN  IF o = NoObj
           THEN /\ Finish(w, PyRaise("KeyError"))
                /\ UNCHANGED ref
           ELSE /\ ref' = [ref EXCEPT ![w] = o]
                /\ pc' = [pc EXCEPT ![w] = "aq_put"]
                /\ UNCHANGED <<ret, resp>>
    /\ UNCHANGED <<data_queue, heap, dropped, rpc, q, arg, clean, nsent, ncalls, dvars, ivars>>

(* add_queue, line 175: .put(data) on the queue that was looked up.       *)
add_queue_put(w) ==
    /\ pc[w] = "aq_put"
    /\ LET rf == [ref EXCEPT ![w] = NoObj]
           e == arg[w].data.v
           hp == [heap EXCEPT ![ref[w]] =
                     [QueuePut(@, e) EXCEPT !.puts = Append(@, e)]]
       IN  /\ ref' = rf
           /\ heap' = Collect(hp, data_queue, rf)
    /\ Finish(w, PyNone)
    /\ UNCHANGED <<data_queue, dropped, rpc, q, arg, clean, nsent, ncalls, dvars, ivars>>

(* get_from_queue, lines 188-191: the target has nothing to hand out.     *)
NoData_unchecked(k, t) ==
    data_queue[k][t] # NoObj /\ QueueEmpty(heap[data_queue[k][t]])
NoData(k, t) ==
    data_queue[k][t] = NoObj \/ QueueEmpty(heap[data_queue[k][t]])

(* get_from_queue, lines 187-192: the emptiness test under the lock.      *)
get_from_queue_locked(w) ==
    /\ pc[w] = "gq_lock"
    /\ LET o == data_queue[q[w]][arg[w].target]
       IN  IF NoData(q[w], arg[w].target)
           THEN Finish(w, PyNone)
           ELSE /\ pc' = [pc EXCEPT ![w] = "gq_lookup"]
                /\ UNCHANGED <<ret, resp>>
    /\ UNCHANGED <<data_queue, heap, dropped, rpc, q, arg, ref, clean, nsent, ncalls, dvars, ivars>>

(* get_from_queue, line 193: self._data_queue[target], outside the lock.  *)
get_from_queue_lookup(w) ==
    /\ pc[w] = "gq_lookup"
    /\ LET o == data_queue[q[w]][arg[w].target]
       IN  IF o = NoObj
           THEN /\ Finish(w, PyRaise("KeyError"))
                /\ UNCHANGED ref
           ELSE /\ ref' = [ref EXCEPT ![w] = o]
                /\ pc' = [pc EXCEPT ![w] = "gq_get"]
                /\ UNCHANGED <<ret, resp>>
    /\ UNCHANGED <<data_queue, heap, dropped, rpc, q, arg, clean, nsent, ncalls, dvars, ivars>>

(* get_from_queue, line 193: the blocking .get(): waits while empty.      *)
get_from_queue_get(w) ==
    /\ pc[w] = "gq_get"
    /\ ~QueueEmpty(heap[ref[w]])
    /\ LET rf == [ref EXCEPT ![w] = NoObj]
           e == QueueFront(heap[ref[w]])
           hp == [heap EXCEPT ![ref[w]] =
                     [QueueGet(@) EXCEPT !.gots = Append(@, e)]]
       IN  /\ ref' = rf
           /\ heap' = Collect(hp, data_queue, rf)
           /\ Finish(w, PyObj(e))
    /\ UNCHANGED <<data_queue, dropped, rpc, q, arg, clean, nsent, ncalls, dvars, ivars>>

(* check_queue, lines 202-204: the membership test under the lock.        *)
check_queue_locked(w) ==
    /\ pc[w] = "cq_lock"
    /\ IF data_queue[q[w]][arg[w].target] = NoObj
       THEN Finish(w, PyBool(FALSE))
       ELSE /\ pc' = [pc EXCEPT ![w] = "cq_lookup"]
            /\ UNCHANGED <<ret, resp>>
    /\ UNCHANGED <<data_queue, heap, dropped, rpc, q, arg, ref, clean, nsent, ncalls, dvars, ivars>>

(* check_queue, line 205: self._data_queue[target], outside the lock.     *)
check_queue_lookup(w) ==
    /\ pc[w] = "cq_lookup"
    /\ LET o == data_queue[q[w]][arg[w].target]
       IN  IF o = NoObj
           THEN /\ Finish(w, PyRaise("KeyError"))
                /\ UNCHANGED ref
           ELSE /\ ref' = [ref EXCEPT ![w] = o]
                /\ pc' = [pc EXCEPT ![w] = "cq_empty"]
                /\ UNCHANGED <<ret, resp>>
    /\ UNCHANGED <<data_queue, heap, dropped, rpc, q, arg, clean, nsent, ncalls, dvars, ivars>>

check_queue_empty_inverted(w) ==
    /\ pc[w] = "cq_empty"
    /\ Finish(w, PyBool(QueueEmpty(heap[ref[w]])))
    /\ LET rf == [ref EXCEPT ![w] = NoObj]
       IN  /\ ref' = rf
           /\ heap' = Collect(heap, data_queue, rf)
    /\ UNCHANGED <<data_queue, dropped, rpc, q, arg, clean, nsent, ncalls, dvars, ivars>>

(* check_queue, line 205: not ....empty()                                 *)
check_queue_empty(w) ==
    /\ pc[w] = "cq_empty"
    /\ Finish(w, PyBool(~QueueEmpty(heap[ref[w]])))
    /\ LET rf == [ref EXCEPT ![w] = NoObj]
       IN  /\ ref' = rf
           /\ heap' = Collect(heap, data_queue, rf)
    /\ UNCHANGED <<data_queue, dropped, rpc, q, arg, clean, nsent, ncalls, dvars, ivars>>

purge_queue_message_only(w) ==
    /\ pc[w] = "pq_lock"
    /\ LET k == q[w]
           dq == [data_queue EXCEPT ![k] = [t \in Targets |-> NoObj]]
       IN  /\ data_queue' = dq
           /\ heap' = Collect(heap, dq, ref)
           /\ dropped' = [dropped EXCEPT ![k] =
                 [t \in Targets |-> dropped[k][t] \/ data_queue[k][t] # NoObj]]
    /\ Finish(w, PyBool(TRUE))
    /\ clean' = TRUE
    /\ UNCHANGED <<q, rpc, arg, ref, nsent, ncalls, dvars, ivars>>

(* purge_queue, lines 216-218; PurgeQueues (348-349) purges the message   *)
(* registry and then the job registry.                                    *)
purge_queue(w) ==
    /\ pc[w] = "pq_lock"
    /\ LET k == q[w]
           dq == [data_queue EXCEPT ![k] = [t \in Targets |-> NoObj]]
       IN  /\ data_queue' = dq
           /\ heap' = Collect(heap, dq, ref)
           /\ dropped' = [dropped EXCEPT ![k] =
                 [t \in Targets |-> dropped[k][t] \/ data_queue[k][t] # NoObj]]
    /\ IF rpc[w] = "PurgeQueues" /\ q[w] = "message"
       THEN /\ q' = [q EXCEPT ![w] = "job"]
            /\ clean' = TRUE
            /\ UNCHANGED <<pc, ret, resp>>
       ELSE /\ Finish(w, PyBool(TRUE))
            /\ UNCHANGED <<q, clean>>
    /\ UNCHANGED <<rpc, arg, ref, nsent, ncalls, dvars, ivars>>

(* gRPC hands a request to a worker: the handler starts (lines 242-247,   *)
(* 269-274, 296-301, 317-322, 331-334, 339-342, 347-348).                 *)
Start(w, m, t, d, at) ==
    /\ rpc' = [rpc EXCEPT ![w] = m]
    /\ q' = [q EXCEPT ![w] = IF m = "PurgeQueues" THEN "message" ELSE KindOf(m)]
    /\ arg' = [arg EXCEPT ![w] = [target |-> t, data |-> d]]
    /\ pc' = [pc EXCEPT ![w] = at]
    /\ UNCHANGED <<data_queue, heap, dropped, ref, ret, resp, clean>>

(* A request from any client of the service, while the run's budget lasts. *)
Request(w) ==
    /\ pc[w] = "idle"
    /\ ncalls < MaxCalls
    /\ ncalls' = ncalls + 1
    /\ call[w] = NoCall
    /\ UNCHANGED <<nsent, dvars, ivars>>

GetMessage(w) ==
    /\ Request(w)
    /\ \E t \in Targets : Start(w, "GetMessage", t, PyNone, "gq_lock")

GetJob(w) ==
    /\ Request(w)
    /\ \E t \in Targets : Start(w, "GetJob", t, PyNone, "gq_lock")

PutMessage(w) ==
    /\ Request(w)
    /\ \E t \in Targets, e \in Envelopes :
          Start(w, "PutMessage", t, PyObj(e), "aq_lock")

PutJob(w) ==
    /\ Request(w)
    /\ \E t \in Targets, e \in Envelopes :
          Start(w, "PutJob", t, PyObj(e), "aq_lock")

MessageCheck(w) ==
    /\ Request(w)
    /\ \E t \in Targets : Start(w, "MessageCheck", t, PyNone, "cq_lock")

JobCheck(w) ==
    /\ Request(w)
    /\ \E t \in Targets : Start(w, "JobCheck", t, PyNone, "cq_lock")

PurgeQueues(w) ==
    /\ Request(w)
    /\ Start(w, "PurgeQueues", None, PyNone, "pq_lock")

(* The caller takes the response; the thread is free for the next call.   *)
Return(w) ==
    /\ pc[w] = "done"
    /\ call[w] = NoCall
    /\ pc' = [pc EXCEPT ![w] = "idle"]
    /\ rpc' = [rpc EXCEPT ![w] = "-"]
    /\ q' = [q EXCEPT ![w] = "-"]
    /\ arg' = [arg EXCEPT ![w] = NoArg]
    /\ ret' = [ret EXCEPT ![w] = PyNone]
    /\ resp' = [resp EXCEPT ![w] = PyNone]
    /\ UNCHANGED <<data_queue, heap, dropped, ref, clean, nsent, ncalls, dvars, ivars>>

(* ------------------------- QueueBase.instance ------------------------- *)
(* The handlers that ask their registry class for its instance and call   *)
(* one method on it, here those of the message channel (lines 245-246,   *)
(* 300-301); GetJob and PutJob do the same with JobQueue.                 *)
Handled == {"GetMessage", "PutMessage"}

MethodOf(m) == IF m \in {"PutMessage", "PutJob"} THEN "aq_lock" ELSE "gq_lock"

(* gRPC hands a request to a worker, which reaches the instance() call of *)
(* its handler.                                                           *)
Handle(w) ==
    /\ Request(w)
    /\ \E m \in Handled, t \in Targets, e \in Envelopes :
          /\ rpc' = [rpc EXCEPT ![w] = m]
          /\ arg' = [arg EXCEPT ![w] =
                [target |-> t,
                 data |-> IF MethodOf(m) = "aq_lock" THEN PyObj(e) ELSE PyNone]]
    /\ pc' = [pc EXCEPT ![w] = "in_test"]
    /\ UNCHANGED <<data_queue, heap, dropped, q, ref, ret, resp, clean, ivars>>

(* instance, line 156: "if cls._instance is None".                        *)
instance_test(w) ==
    /\ pc[w] = "in_test"
    /\ pc' = [pc EXCEPT ![w] =
          IF cls_instance[KindOf(rpc[w])] = None THEN "in_new" ELSE "in_return"]
    /\ UNCHANGED <<data_queue, heap, dropped, rpc, q, arg, ref, ret, resp,
                   clean, nsent, ncalls, dvars, ivars>>

(* instance, line 157: "cls._instance = cls.__new__(cls)".                *)
NewRegistry(k) == IF registry[k] = "absent" THEN k ELSE Second(k)

instance_new(w) ==
    /\ pc[w] = "in_new"
    /\ LET k == KindOf(rpc[w])
           r == NewRegistry(k)
       IN  /\ registry[r] = "absent"
           /\ registry' = [registry EXCEPT ![r] = "new"]
           /\ cls_instance' = [cls_instance EXCEPT ![k] = r]
    /\ pc' = [pc EXCEPT ![w] = "in_setup"]
    /\ UNCHANGED <<data_queue, heap, dropped, rpc, q, arg, ref, ret, resp,
                   clean, nsent, ncalls, dvars>>

(* instance, line 158: "cls._instance._setup()" reads the class attribute *)
(* again and gives that object an empty _data_queue (lines 149-152).      *)
instance_setup(w) ==
    /\ pc[w] = "in_setup"
    /\ LET r == cls_instance[KindOf(rpc[w])]
           dq == [data_queue EXCEPT ![r] = [t \in Targets |-> NoObj]]
       IN  /\ registry' = [registry EXCEPT ![r] = "ready"]
           /\ data_queue' = dq
           /\ heap' = Collect(heap, dq, ref)
    /\ pc' = [pc EXCEPT ![w] = "in_return"]
    /\ UNCHANGED <<cls_instance, dropped, rpc, q, arg, ref, ret, resp,
                   clean, nsent, ncalls, dvars>>

(* instance, line 160: "return cls._instance"; the handler calls its      *)
(* method on the object it got, which has no _lock and no _data_queue     *)
(* before _setup has run on it.                                           *)
instance_return(w) ==
    /\ pc[w] = "in_return"
    /\ LET r == cls_instance[KindOf(rpc[w])]
       IN  /\ q' = [q EXCEPT ![w] = r]
           /\ IF registry[r] = "ready"
              THEN /\ pc' = [pc EXCEPT ![w] = MethodOf(rpc[w])]
                   /\ UNCHANGED <<ret, resp>>
              ELSE Finish(w, PyRaise("AttributeError"))
    /\ UNCHANGED <<data_queue, heap, dropped, rpc, arg, ref, clean, nsent,
                   ncalls, dvars, ivars>>

(* --------------------------- specification ---------------------------- *)
Next ==
    \E w \in Threads :
        \/ GetMessage(w) \/ GetJob(w) \/ PutMessage(w) \/ PutJob(w)
        \/ MessageCheck(w) \/ JobCheck(w) \/ PurgeQueues(w)
        \/ add_queue_locked(w) \/ add_queue_lookup(w) \/ add_queue_put(w)
        \/ get_from_queue_locked(w) \/ get_from_queue_lookup(w)
        \/ get_from_queue_get(w)
        \/ check_queue_locked(w) \/ check_queue_lookup(w)
        \/ check_queue_empty(w)
        \/ purge_queue(w)
        \/ Return(w)

Spec == Init /\ [][Next]_vars

(* ------------------------ MessageServiceClient ------------------------ *)
RpcOf(cop) ==
    CASE cop = "get_message" -> "GetMessage"
      [] cop = "get_job" -> "GetJob"
      [] cop = "put_message" -> "PutMessage"
      [] cop = "put_job" -> "PutJob"
      [] cop = "message_check" -> "MessageCheck"
      [] cop = "job_check" -> "JobCheck"
      [] OTHER -> "PurgeQueues"

EntryOf(cop) ==
    CASE cop \in {"get_message", "get_job"} -> "gq_lock"
      [] cop \in {"put_message", "put_job"} -> "aq_lock"
      [] cop \in {"message_check", "job_check"} -> "cq_lock"
      [] OTHER -> "pq_lock"

(* get_message/get_job, lines 413-432 and 445-464: the except clause     *)
(* logs the RpcError and re-raises it.                                    *)
GetResult_absorbs(target, r) ==
    IF IsRaise(r) THEN PyObj(<<target, PyNone>>)
    ELSE IF r.v.status THEN PyObj(<<r.v.target, PyObj(r.v.data)>>)
    ELSE PyObj(<<target, PyNone>>)
GetResult(target, r) ==
    IF IsRaise(r) THEN PyRaise("RpcError")
    ELSE IF r.v.status THEN PyObj(<<r.v.target, PyObj(r.v.data)>>)
    ELSE PyObj(<<target, PyNone>>)

(* put_message/put_job, lines 505-518 and 559-572: the except clause      *)
(* logs and falls through to return False.                                *)
PutResult_reraises(r) ==
    IF IsRaise(r) THEN PyRaise("RpcError") ELSE PyBool(r.v.result)
PutResult(r) ==
    IF IsRaise(r) THEN PyBool(FALSE) ELSE PyBool(r.v.result)

(* message_check/job_check, lines 579-591 and 598-610.                    *)
CheckResult(r) ==
    IF IsRaise(r) THEN PyBool(FALSE) ELSE PyBool(r.v.has_data)

(* purge_queues, lines 617-629: response.status, or the RpcError          *)
(* re-raised.                                                             *)
PurgeResult_absorbs(r) ==
    IF IsRaise(r) THEN PyBool(FALSE)
    ELSE IF "status" \in DOMAIN r.v THEN PyBool(r.v.status)
    ELSE PyRaise("AttributeError")
PurgeResult(r) ==
    IF IsRaise(r) THEN PyRaise("RpcError")
    ELSE IF "status" \in DOMAIN r.v THEN PyBool(r.v.status)
    ELSE PyRaise("AttributeError")

(* What a client method hands back for the outcome r of its RPC: the      *)
(* response, or the RpcError the stub raised (lines 413-432, 505-518,     *)
(* 579-591, 617-629).                                                     *)
ClientResult(cop, target, r) ==
    CASE cop \in {"get_message", "get_job"} -> GetResult(target, r)
      [] cop \in {"put_message", "put_job"} -> PutResult(r)
      [] cop \in {"message_check", "job_check"} -> CheckResult(r)
      [] OTHER -> PurgeResult(r)

(* -------------------------------- Driver ------------------------------ *)
Mode(w) == IF w = server_identity THEN "server" ELSE "client"
Identity(w) == w

(* The service answers while the coordinator's Driver holds a started     *)
(* grpc server.                                                           *)
Serving == drv_server[server_identity]

(* backend_send/job_send, lines 807-810 and 885-888.                      *)
SendIdentity(w, kw) == IF kw.identity = None THEN Identity(w) ELSE kw.identity
SendTarget_always_server(kw) ==
    IF kw.target # None THEN kw.target ELSE server_identity
SendTarget(kw) ==
    IF kw.target # None THEN kw.target
    ELSE IF kw.identity # None THEN kw.identity ELSE server_identity

SendData_no_msg_id(w, kw) ==
    MessageData(SendIdentity(w, kw), None, kw.control, kw.command,
                kw.data, kw.info, kw.stderr, kw.stdout)
SendData(w, kw) ==
    MessageData(SendIdentity(w, kw), kw.msg_id, kw.control, kw.command,
                kw.data, kw.info, kw.stderr, kw.stdout)

(* backend_recv/job_recv, lines 746-757 and 915-926.                      *)
OrBraces(v) == IF v = "" \/ v = None THEN "{}" ELSE v
RecvList_no_identity(mode, data) ==
    <<data.msg_id, data.control, data.command, OrBraces(data.data),
      data.info, data.stderr, data.stdout>>
RecvList(mode, data) ==
    LET return_msg == <<data.msg_id, data.control, data.command,
                        OrBraces(data.data), data.info, data.stderr,
                        data.stdout>>
    IN  IF mode = "server" THEN <<data.identity>> \o return_msg
        ELSE return_msg

(* backend_check/job_check, lines 792-795 and 961-964, in units of        *)
(* 1/10000 s: max(interval * (constant * 0.001), 0.2) and the jitter      *)
(* random.randrange(0, 1000) / 10000.                                     *)
Max_first(a, b) == a
Max(a, b) == IF a > b THEN a ELSE b
CheckFloor == 2000
JitterRange == 1000
Jitters == {0, JitterRange - 1}
Timeout_min(interval, constant, j) ==
    (IF interval * constant * 10 < CheckFloor
     THEN interval * constant * 10 ELSE CheckFloor) + j
Timeout(interval, constant, j) ==
    Max(interval * constant * 10, CheckFloor) + j

Sends == {"backend_send", "job_send", "heartbeat_send"}
Recvs == {"backend_recv", "job_recv"}
DriverChecks == {"backend_check", "job_check"}

(* What the Driver method returns for the outcome cr of its client call.  *)
DriverResult(w, c, cr) ==
    CASE c.op \in Sends ->
            IF IsRaise(cr) THEN cr ELSE PyBool(TRUE)
      [] c.op \in Recvs ->
            IF IsRaise(cr) THEN cr
            ELSE IF cr.v[2] = PyNone THEN PyRaise("AttributeError")
            ELSE PyObj(RecvList(Mode(w), cr.v[2].v))
      [] c.op \in DriverChecks ->
            IF IsRaise(cr) THEN cr ELSE PyBool(cr.v)
      [] OTHER -> cr

(* The call c of w ends with client outcome cr after its stub call ended  *)
(* with rr; a check that saw no data sleeps before it returns.            *)
Complete(w, c, rr, cr) ==
    \E j \in Jitters :
        LET r == IF c.layer = "driver" THEN DriverResult(w, c, cr) ELSE cr
            sl == IF c.op \in DriverChecks /\ r = PyBool(FALSE)
                  THEN Timeout(c.interval, c.constant, j) ELSE 0
        IN  last' = [who |-> w, call |-> c, rres |-> rr, cres |-> cr,
                     result |-> r, slept |-> sl]

(* One driver or client call at a time; a connect() waiting for the       *)
(* channel does not hold the others up.                                   *)
Quiet == \A v \in Threads : pc[v] \in {"idle", "connect"}

(* A client method is entered: it raises when the stub is gone, otherwise *)
(* it calls the stub, which reaches a handler of the running service or   *)
(* fails with an RpcError.                                                *)
Enter(w, c) ==
    /\ pc[w] = "idle"
    /\ Quiet
    /\ ncalls < MaxDriverCalls
    /\ ncalls' = ncalls + 1
    /\ IF c.layer = "driver" /\ ~drv_client[w]
       THEN /\ Complete(w, c, PyNone, PyRaise("AttributeError"))
            /\ UNCHANGED <<pc, rpc, q, arg, call>>
       ELSE IF ~client[w].stub
       THEN /\ Complete(w, c, PyNone, PyRaise("Exception"))
            /\ UNCHANGED <<pc, rpc, q, arg, call>>
       ELSE \/ /\ Serving
               /\ Start(w, RpcOf(c.cop), c.target, c.data, EntryOf(c.cop))
               /\ call' = [call EXCEPT ![w] = c]
               /\ UNCHANGED last
            \/ /\ Complete(w, c, PyRaise("RpcError"),
                           ClientResult(c.cop, c.target, PyRaise("RpcError")))
               /\ UNCHANGED <<pc, rpc, q, arg, call>>
    /\ UNCHANGED <<data_queue, heap, dropped, ref, ret, resp, clean, nsent,
                   drv_server, drv_client, client, made, ivars>>

(* The response reaches the client method, which returns to its caller.   *)
Deliver(w) ==
    /\ pc[w] = "done"
    /\ call[w] # NoCall
    /\ Complete(w, call[w], resp[w],
                ClientResult(call[w].cop, call[w].target, resp[w]))
    /\ call' = [call EXCEPT ![w] = NoCall]
    /\ pc' = [pc EXCEPT ![w] = "idle"]
    /\ rpc' = [rpc EXCEPT ![w] = "-"]
    /\ q' = [q EXCEPT ![w] = "-"]
    /\ arg' = [arg EXCEPT ![w] = NoArg]
    /\ ret' = [ret EXCEPT ![w] = PyNone]
    /\ resp' = [resp EXCEPT ![w] = PyNone]
    /\ UNCHANGED <<data_queue, heap, dropped, ref, clean, nsent, ncalls,
                   drv_server, drv_client, client, made, ivars>>

ClientCall(layer, op, cop, target, data, kw, interval, constant) ==
    [layer |-> layer, op |-> op, cop |-> cop, target |-> target,
     data |-> data, kw |-> kw, interval |-> interval, constant |-> constant]

(* The keyword arguments sends are called with.                           *)
Payloads ==
    { [msg_id |-> None, control |-> None, command |-> None, data |-> None,
       info |-> None, stderr |-> None, stdout |-> None],
      [msg_id |-> "m1", control |-> "c", command |-> "run", data |-> "d",
       info |-> "i", stderr |-> "e", stdout |-> "o"] }
SendKwargs ==
    { [target |-> t, identity |-> i, msg_id |-> p.msg_id,
       control |-> p.control, command |-> p.command, data |-> p.data,
       info |-> p.info, stderr |-> p.stderr, stdout |-> p.stdout] :
         t \in {None, "agent-1"}, i \in {None, "agent-1"},
         p \in Payloads }

(* Driver.backend_send, lines 799-826.                                    *)
backend_send(w) ==
    \E kw \in SendKwargs :
        /\ Enter(w, ClientCall("driver", "backend_send", "put_message",
                               SendTarget(kw), PyObj(SendData(w, kw)), kw,
                               0, 0))

(* Driver.job_send, lines 877-904.                                        *)
job_send(w) ==
    \E kw \in SendKwargs :
        /\ Enter(w, ClientCall("driver", "job_send", "put_job",
                               SendTarget(kw), PyObj(SendData(w, kw)), kw,
                               0, 0))

(* backend_send and job_send called with an empty text as data.           *)
EmptyDataKwargs ==
    { [NoKw EXCEPT !.target = t, !.msg_id = "m2", !.control = "c",
                   !.command = "run", !.data = ""] : t \in {None, "agent-1"} }

backend_send_empty(w) ==
    \E kw \in EmptyDataKwargs :
        /\ Enter(w, ClientCall("driver", "backend_send", "put_message",
                               SendTarget(kw), PyObj(SendData(w, kw)), kw,
                               0, 0))

job_send_empty(w) ==
    \E kw \in EmptyDataKwargs :
        /\ Enter(w, ClientCall("driver", "job_send", "put_job",
                               SendTarget(kw), PyObj(SendData(w, kw)), kw,
                               0, 0))

(* Driver.heartbeat_send, lines 838-875: job_send with the coordinator as *)
(* target and the heartbeat control code.                                 *)
HeartbeatKw_no_target(w) ==
    [NoKw EXCEPT !.identity = Identity(w),
                 !.control = "heartbeat_notice", !.msg_id = "job_id",
                 !.data = "json"]
HeartbeatKw(w) ==
    [NoKw EXCEPT !.target = server_identity, !.identity = Identity(w),
                 !.control = "heartbeat_notice", !.msg_id = "job_id",
                 !.data = "json"]

heartbeat_send(w) ==
    LET kw == HeartbeatKw(w)
    IN  Enter(w, ClientCall("driver", "heartbeat_send", "put_job",
                             SendTarget(kw), PyObj(SendData(w, kw)), kw,
                             0, 0))

(* Driver.backend_recv, lines 738-757, and Driver.job_recv, 906-926.      *)
backend_recv(w) ==
    /\ Enter(w, ClientCall("driver", "backend_recv", "get_message",
                           Identity(w), PyNone, NoKw, 0, 0))

job_recv(w) ==
    /\ Enter(w, ClientCall("driver", "job_recv", "get_job",
                           Identity(w), PyNone, NoKw, 0, 0))

(* Driver.backend_check, lines 777-797, and Driver.job_check, 946-966.    *)
CheckArgs == {<<1, 1000>>, <<1, 100>>}

backend_check(w) ==
    \E a \in CheckArgs :
        /\ Enter(w, ClientCall("driver", "backend_check", "message_check",
                               Identity(w), PyNone, NoKw, a[1], a[2]))

job_check(w) ==
    \E a \in CheckArgs :
        /\ Enter(w, ClientCall("driver", "job_check", "job_check",
                               Identity(w), PyNone, NoKw, a[1], a[2]))

(* The methods of MessageServiceClient called on the client object        *)
(* itself, lines 402-629.                                                 *)
get_message(w) ==
    \E t \in Targets :
        /\ client[w].exists
        /\ Enter(w, ClientCall("client", "get_message", "get_message",
                               t, PyNone, NoKw, 0, 0))

get_job(w) ==
    \E t \in Targets :
        /\ client[w].exists
        /\ Enter(w, ClientCall("client", "get_job", "get_job",
                               t, PyNone, NoKw, 0, 0))

put_message(w) ==
    \E t \in Targets, i \in {Identity(w)}, p \in Payloads :
        /\ client[w].exists
        /\ Enter(w, ClientCall("client", "put_message", "put_message", t,
                     PyObj(MessageData(i, p.msg_id, p.control, p.command,
                                       p.data, p.info, p.stderr, p.stdout)),
                     NoKw, 0, 0))

put_job(w) ==
    \E t \in Targets, i \in {Identity(w)}, p \in Payloads :
        /\ client[w].exists
        /\ Enter(w, ClientCall("client", "put_job", "put_job", t,
                     PyObj(MessageData(i, p.msg_id, p.control, p.command,
                                       p.data, p.info, p.stderr, p.stdout)),
                     NoKw, 0, 0))

message_check(w) ==
    \E t \in Targets :
        /\ client[w].exists
        /\ Enter(w, ClientCall("client", "message_check", "message_check",
                               t, PyNone, NoKw, 0, 0))

client_job_check(w) ==
    \E t \in Targets :
        /\ client[w].exists
        /\ Enter(w, ClientCall("client", "client_job_check", "job_check",
                               t, PyNone, NoKw, 0, 0))

purge_queues(w) ==
    /\ client[w].exists
    /\ Enter(w, ClientCall("client", "purge_queues", "purge_queues",
                           None, PyNone, NoKw, 0, 0))

(* A call that involves no RPC ended with result r.                       *)
Local(w, layer, op, r) ==
    /\ last' = [who |-> w,
                call |-> ClientCall(layer, op, "-", None, PyNone, NoKw, 0, 0),
                rres |-> PyNone, cres |-> PyNone, result |-> r, slept |-> 0]
    /\ UNCHANGED <<svars, call, ivars>>

(* MessageServiceClient.close, lines 395-400.                             *)
ClientClose_keeps_stub(cl) ==
    [cl EXCEPT !.channel = FALSE, !.closes = IF @ < 2 THEN @ + 1 ELSE @]
ClientClose(cl) ==
    [cl EXCEPT !.channel = FALSE, !.stub = FALSE,
               !.closes = IF @ < 2 THEN @ + 1 ELSE @]

close(w) ==
    /\ pc[w] = "idle" /\ Quiet
    /\ client[w].exists
    /\ client' = [client EXCEPT ![w] = ClientClose(@)]
    /\ Local(w, "client", "close", PyNone)
    /\ UNCHANGED <<drv_server, drv_client, made>>

(* Driver._backend_bind and _backend_connection, lines 692-727, reached   *)
(* from backend_init (759-770) and job_init (928-939).  In server mode    *)
(* the service is started and then the local client connects to it; in    *)
(* client mode connect() waits until the channel is READY.                *)
DriverInit_rebinds(w, op) ==
    /\ pc[w] = "idle" /\ Quiet
    /\ IF Mode(w) = "server"
       THEN /\ made[w].server < MaxInits
            /\ drv_server' = [drv_server EXCEPT ![w] = TRUE]
            /\ IF drv_client[w]
               THEN /\ made' = [made EXCEPT ![w].server = @ + 1]
                    /\ UNCHANGED <<drv_client, client>>
               ELSE /\ made[w].client < MaxInits
                    /\ made' = [made EXCEPT ![w].server = @ + 1,
                                            ![w].client = @ + 1]
                    /\ drv_client' = [drv_client EXCEPT ![w] = TRUE]
                    /\ client' = [client EXCEPT ![w] = Connected]
            /\ Local(w, "driver", op, PyNone)
       ELSE /\ made[w].client < MaxInits
            /\ made' = [made EXCEPT ![w].client = @ + 1]
            /\ pc' = [pc EXCEPT ![w] = "connect"]
            /\ call' = [call EXCEPT ![w] =
                  ClientCall("driver", op, "-", None, PyNone, NoKw, 0, 0)]
            /\ UNCHANGED <<data_queue, heap, dropped, rpc, q, arg, ref,
                           ret, resp, clean, nsent, ncalls,
                           drv_server, drv_client, client, last, ivars>>
DriverInit_no_client(w, op) ==
    /\ pc[w] = "idle" /\ Quiet
    /\ IF Mode(w) = "server"
       THEN IF drv_server[w]
            THEN /\ Local(w, "driver", op, PyNone)
                 /\ UNCHANGED <<drv_server, drv_client, client, made>>
            ELSE /\ made[w].server < MaxInits
                 /\ drv_server' = [drv_server EXCEPT ![w] = TRUE]
                 /\ made' = [made EXCEPT ![w].server = @ + 1]
                 /\ UNCHANGED <<drv_client, client>>
                 /\ Local(w, "driver", op, PyNone)
       ELSE IF drv_client[w]
            THEN /\ Local(w, "driver", op, PyNone)
                 /\ UNCHANGED <<drv_server, drv_client, client, made>>
            ELSE /\ made[w].client < MaxInits
                 /\ made' = [made EXCEPT ![w].client = @ + 1]
                 /\ pc' = [pc EXCEPT ![w] = "connect"]
                 /\ call' = [call EXCEPT ![w] =
                       ClientCall("driver", op, "-", None, PyNone, NoKw, 0, 0)]
                 /\ UNCHANGED <<data_queue, heap, dropped, rpc, q, arg, ref,
                                ret, resp, clean, nsent, ncalls,
                                drv_server, drv_client, client, last, ivars>>
DriverInit(w, op) ==
    /\ pc[w] = "idle" /\ Quiet
    /\ IF Mode(w) = "server"
       THEN IF drv_server[w]
            THEN /\ Local(w, "driver", op, PyNone)
                 /\ UNCHANGED <<drv_server, drv_client, client, made>>
            ELSE /\ made[w].server < MaxInits
                 /\ drv_server' = [drv_server EXCEPT ![w] = TRUE]
                 /\ IF drv_client[w]
                    THEN /\ made' = [made EXCEPT ![w].server = @ + 1]
                         /\ UNCHANGED <<drv_client, client>>
                    ELSE /\ made[w].client < MaxInits
                         /\ made' = [made EXCEPT ![w].server = @ + 1,
                                                 ![w].client = @ + 1]
                         /\ drv_client' = [drv_client EXCEPT ![w] = TRUE]
                         /\ client' = [client EXCEPT ![w] = Connected]
                 /\ Local(w, "driver", op, PyNone)
       ELSE IF drv_client[w]
            THEN /\ Local(w, "driver", op, PyNone)
                 /\ UNCHANGED <<drv_server, drv_client, client, made>>
            ELSE /\ made[w].client < MaxInits
                 /\ made' = [made EXCEPT ![w].client = @ + 1]
                 /\ pc' = [pc EXCEPT ![w] = "connect"]
                 /\ call' = [call EXCEPT ![w] =
                       ClientCall("driver", op, "-", None, PyNone, NoKw, 0, 0)]
                 /\ UNCHANGED <<data_queue, heap, dropped, rpc, q, arg, ref,
                                ret, resp, clean, nsent, ncalls,
                                drv_server, drv_client, client, last, ivars>>

backend_init(w) == DriverInit(w, "backend_init")
job_init(w) == DriverInit(w, "job_init")

(* MessageServiceClient.connect, lines 371-393: wait_for_channel.wait()   *)
(* returns once the channel is READY; the Driver then keeps the client.   *)
connect(w) ==
    /\ pc[w] = "connect"
    /\ Serving
    /\ client' = [client EXCEPT ![w] = Connected]
    /\ drv_client' = [drv_client EXCEPT ![w] = TRUE]
    /\ last' = [who |-> w, call |-> call[w], rres |-> PyNone,
                cres |-> PyNone, result |-> PyNone, slept |-> 0]
    /\ call' = [call EXCEPT ![w] = NoCall]
    /\ pc' = [pc EXCEPT ![w] = "idle"]
    /\ UNCHANGED <<data_queue, heap, dropped, rpc, q, arg, ref, ret, resp,
                   clean, nsent, ncalls, drv_server, made, ivars>>

(* Driver._backend_close, lines 729-736, reached from backend_close       *)
(* (772-775) and job_close (941-944).                                     *)
DriverClose_keeps_client(w, op) ==
    /\ pc[w] = "idle" /\ Quiet
    /\ drv_server' = [drv_server EXCEPT ![w] = FALSE]
    /\ client' = [client EXCEPT ![w] =
                     IF drv_client[w] THEN ClientClose(@) ELSE @]
    /\ UNCHANGED <<drv_client, made>>
    /\ Local(w, "driver", op, PyNone)
DriverClose(w, op) ==
    /\ pc[w] = "idle" /\ Quiet
    /\ drv_server' = [drv_server EXCEPT ![w] = FALSE]
    /\ drv_client' = [drv_client EXCEPT ![w] = FALSE]
    /\ client' = [client EXCEPT ![w] =
                     IF drv_client[w] THEN ClientClose(@) ELSE @]
    /\ UNCHANGED made
    /\ Local(w, "driver", op, PyNone)

backend_close(w) == DriverClose(w, "backend_close")
job_close(w) == DriverClose(w, "job_close")

(* The coordinator is bound and both drivers are connected.               *)
InitDriver ==
    /\ data_queue = [k \in Registries |-> [t \in Targets |-> NoObj]]
    /\ heap = [o \in ObjIds |-> NoQueue]
    /\ dropped = [k \in Registries |-> [t \in Targets |-> FALSE]]
    /\ pc = [w \in Threads |-> "idle"]
    /\ rpc = [w \in Threads |-> "-"]
    /\ q = [w \in Threads |-> "-"]
    /\ arg = [w \in Threads |-> NoArg]
    /\ ref = [w \in Threads |-> NoObj]
    /\ ret = [w \in Threads |-> PyNone]
    /\ resp = [w \in Threads |-> PyNone]
    /\ drv_server = [w \in Threads |-> Mode(w) = "server"]
    /\ drv_client = [w \in Threads |-> TRUE]
    /\ client = [w \in Threads |-> Connected]
    /\ made = [w \in Threads |->
                 [server |-> IF Mode(w) = "server" THEN 1 ELSE 0, client |-> 1]]
    /\ call = [w \in Threads |-> NoCall]
    /\ last = NoLast
    /\ clean = FALSE
    /\ nsent = [w \in Threads |-> 0]
    /\ ncalls = 0
    /\ cls_instance = [k \in Kinds |-> k]
    /\ registry = [r \in Registries |-> IF r \in Kinds THEN "ready" ELSE "absent"]

(* The calls of the orchestration layer on connected drivers.             *)
NextDriver ==
    \E w \in Threads :
        \/ backend_send(w) \/ job_send(w) \/ heartbeat_send(w)
        \/ backend_recv(w) \/ job_recv(w)
        \/ backend_check(w) \/ job_check(w)
        \/ add_queue_locked(w) \/ add_queue_lookup(w) \/ add_queue_put(w)
        \/ get_from_queue_locked(w) \/ get_from_queue_lookup(w)
        \/ get_from_queue_get(w)
        \/ check_queue_locked(w) \/ check_queue_lookup(w)
        \/ check_queue_empty(w)
        \/ Deliver(w)

SpecDriver == InitDriver /\ [][NextDriver]_vars

(* The methods of the connected drivers' MessageServiceClient objects.    *)
NextClient ==
    \E w \in Threads :
        \/ get_message(w) \/ get_job(w) \/ put_message(w) \/ put_job(w)
        \/ message_check(w) \/ client_job_check(w) \/ purge_queues(w)
        \/ close(w)
        \/ add_queue_locked(w) \/ add_queue_lookup(w) \/ add_queue_put(w)
        \/ get_from_queue_locked(w) \/ get_from_queue_lookup(w)
        \/ get_from_queue_get(w)
        \/ check_queue_locked(w) \/ check_queue_lookup(w)
        \/ check_queue_empty(w)
        \/ purge_queue(w)
        \/ Deliver(w)

SpecClient == InitDriver /\ [][NextClient]_vars

(* Sends and receives on both channels between connected drivers.        *)
NextRoundTrip ==
    \E w \in Threads :
        \/ backend_send(w) \/ job_send(w)
        \/ backend_send_empty(w) \/ job_send_empty(w)
        \/ backend_recv(w) \/ job_recv(w)
        \/ add_queue_locked(w) \/ add_queue_lookup(w) \/ add_queue_put(w)
        \/ get_from_queue_locked(w) \/ get_from_queue_lookup(w)
        \/ get_from_queue_get(w)
        \/ Deliver(w)

SpecRoundTrip == InitDriver /\ [][NextRoundTrip]_vars

(* The drivers from construction on: init, close and the message channel; *)
(* the coordinator may never initialize, or close while an agent waits.   *)
NextLife ==
    \E w \in Threads :
        \/ backend_init(w) \/ job_init(w) \/ connect(w)
        \/ backend_close(w) \/ job_close(w)
        \/ backend_send(w) \/ backend_recv(w) \/ backend_check(w)
        \/ add_queue_locked(w) \/ add_queue_lookup(w) \/ add_queue_put(w)
        \/ get_from_queue_locked(w) \/ get_from_queue_lookup(w)
        \/ get_from_queue_get(w)
        \/ check_queue_locked(w) \/ check_queue_lookup(w)
        \/ check_queue_empty(w)
        \/ Deliver(w)

SpecLife == Init /\ [][NextLife]_vars

(* The drivers from construction on, initialized through the message      *)
(* channel only (backend_init) and closed through the job channel only    *)
(* (job_close); between the two they use the job channel and receive on   *)
(* the message channel.                                                   *)
NextChannels ==
    \E w \in Threads :
        \/ backend_init(w) \/ connect(w) \/ job_close(w)
        \/ job_send(w) \/ job_recv(w) \/ job_check(w)
        \/ backend_recv(w)
        \/ add_queue_locked(w) \/ add_queue_lookup(w) \/ add_queue_put(w)
        \/ get_from_queue_locked(w) \/ get_from_queue_lookup(w)
        \/ get_from_queue_get(w)
        \/ check_queue_locked(w) \/ check_queue_lookup(w)
        \/ check_queue_empty(w)
        \/ Deliver(w)

SpecChannels == Init /\ [][NextChannels]_vars

(* A thread that can take a step of the call it is in takes it: the       *)
(* handler's steps, the response's way back and the return of connect()   *)
(* once the channel is READY.  Which calls are made, and when, is up to   *)
(* the callers.                                                           *)
Progress(w) ==
    \/ connect(w)
    \/ add_queue_locked(w) \/ add_queue_lookup(w) \/ add_queue_put(w)
    \/ get_from_queue_locked(w) \/ get_from_queue_lookup(w)
    \/ get_from_queue_get(w)
    \/ check_queue_locked(w) \/ check_queue_lookup(w)
    \/ check_queue_empty(w)
    \/ Deliver(w)

SpecLifeFair == SpecLife /\ \A w \in Threads : WF_vars(Progress(w))

(* N writers, each enqueueing WritesEach envelopes for its own target and  *)
(* reading its own target back.                                           *)
WriterEnvelope(w, i) ==
    MessageData(w, MsgIds[i], "c", "run", "d", None, None, None)

WriterPut(w) ==
    /\ pc[w] = "idle"
    /\ nsent[w] < WritesEach
    /\ nsent' = [nsent EXCEPT ![w] = @ + 1]
    /\ Start(w, "PutMessage", w, PyObj(WriterEnvelope(w, nsent[w] + 1)),
             "aq_lock")
    /\ UNCHANGED <<ncalls, dvars, ivars>>

WriterGet(w) ==
    /\ pc[w] = "idle"
    /\ Start(w, "GetMessage", w, PyNone, "gq_lock")
    /\ UNCHANGED <<nsent, ncalls, dvars, ivars>>

NextWriters ==
    \E w \in Threads :
        \/ WriterPut(w) \/ WriterGet(w)
        \/ add_queue_locked(w) \/ add_queue_lookup(w) \/ add_queue_put(w)
        \/ get_from_queue_locked(w) \/ get_from_queue_lookup(w)
        \/ get_from_queue_get(w)
        \/ Return(w)

SpecWriters == Init /\ [][NextWriters]_vars

(* Concurrent handlers in a process that has not created its registries  *)
(* yet.                                                                   *)
NextInstance ==
    \E w \in Threads :
        \/ Handle(w)
        \/ instance_test(w) \/ instance_new(w) \/ instance_setup(w)
        \/ instance_return(w)
        \/ add_queue_locked(w) \/ add_queue_lookup(w) \/ add_queue_put(w)
        \/ get_from_queue_locked(w) \/ get_from_queue_lookup(w)
        \/ get_from_queue_get(w)
        \/ Return(w)

SpecInstance == InitInstance /\ [][NextInstance]_vars

(* ------------------------------- claims ------------------------------- *)
Cur(k, t) == data_queue[k][t]
Items(k, t) == IF Cur(k, t) = NoObj THEN <<>> ELSE heap[Cur(k, t)].items
Added(k, t) == IF Cur(k, t) = NoObj THEN 0 ELSE Len(heap[Cur(k, t)].puts)
Taken(k, t) == IF Cur(k, t) = NoObj THEN 0 ELSE Len(heap[Cur(k, t)].gots)
Acted(w, at) == pc[w] \in at /\ pc'[w] # pc[w]
Gets == {"GetMessage", "GetJob"}
Checks == {"MessageCheck", "JobCheck"}

EmptyGetReturnsNone ==
    [][\A w \in Threads :
          (/\ Acted(w, {"gq_lock"})
           /\ \/ Cur(q[w], arg[w].target) = NoObj
              \/ heap[Cur(q[w], arg[w].target)].items = <<>>)
          => /\ pc'[w] = "done"
             /\ ret'[w] = PyNone
             /\ data_queue' = data_queue
             /\ heap' = heap]_vars

EmptyGetWitness ==
    \E w, v \in Threads :
        /\ pc[w] = "done" /\ rpc[w] \in Gets /\ ret[w] = PyNone
        /\ Cur(q[w], arg[w].target) = NoObj
        /\ dropped[q[w]][arg[w].target]
        /\ pc[v] = "done" /\ rpc[v] \in Gets /\ ret[v] = PyNone
        /\ Cur(q[v], arg[v].target) = NoObj
        /\ ~dropped[q[v]][arg[v].target]

(* C3: check_queue answers whether more envelopes were added to the       *)
(* target's queue than were taken from it -- false before any add_queue,  *)
(* true after one, false again after the matching get_from_queue -- and   *)
(* no step of check_queue changes the mapping or the contents of a queue. *)
CheckQueueAnswer ==
    [][\A w \in Threads :
          Acted(w, {"cq_lock", "cq_lookup", "cq_empty"})
          => /\ data_queue' = data_queue
             /\ \A k \in Kinds, t \in Targets : Items(k, t)' = Items(k, t)
             /\ (/\ pc'[w] = "done"
                 /\ ~IsRaise(ret'[w])
                 /\ ref[w] \in {NoObj, Cur(q[w], arg[w].target)})
                => ret'[w] = PyBool(Added(q[w], arg[w].target)
                                     > Taken(q[w], arg[w].target))]_vars

CheckQueueWitness ==
    \E w, v \in Threads :
        /\ pc[w] = "done" /\ rpc[w] \in Checks /\ ret[w] = PyBool(FALSE)
        /\ Added(q[w], arg[w].target) > 0
        /\ Added(q[w], arg[w].target) = Taken(q[w], arg[w].target)
        /\ pc[v] = "done" /\ rpc[v] \in Checks /\ ret[v] = PyBool(TRUE)

(* C4: once PurgeQueues has completed and no Put has acted since it began *)
(* purging, no target is left in the message or the job registry, and     *)
(* every MessageCheck/JobCheck answers has_data = false and every         *)
(* GetMessage/GetJob answers status = false.                              *)
Purged ==
    /\ clean
    /\ \A w \in Threads : ~(rpc[w] = "PurgeQueues" /\ pc[w] = "pq_lock")

NoDataResponse(m, t) ==
    IF m \in Checks
    THEN PyObj([target |-> t, has_data |-> FALSE])
    ELSE PyObj([status |-> FALSE, target |-> t, data |-> EmptyData])

PurgeDropsAll ==
    /\ [](Purged => \A k \in Kinds, t \in Targets : Cur(k, t) = NoObj)
    /\ [][\A w \in Threads :
             (Purged /\ Acted(w, {"cq_lock", "gq_lock"}))
             => /\ pc'[w] = "done"
                /\ resp'[w] = NoDataResponse(rpc[w], arg[w].target)]_vars

PurgeWitness ==
    \E w \in Threads :
        /\ Purged
        /\ pc[w] = "done" /\ rpc[w] \in Checks \cup Gets
        /\ resp[w] = NoDataResponse(rpc[w], arg[w].target)
        /\ dropped[q[w]][arg[w].target]
        /\ \E t \in Targets : dropped["message"][t]
        /\ \E t \in Targets : dropped["job"][t]

(* C5: with every writer enqueueing for its own target only, in any       *)
(* interleaving, the queue of a target yields exactly the envelopes its   *)
(* writer has enqueued so far, in the writer's order, and nothing         *)
(* enqueued for another target.                                           *)
Completed(w) ==
    IF pc[w] \in {"aq_lock", "aq_lookup", "aq_put"}
    THEN nsent[w] - 1 ELSE nsent[w]

WritersKeepApart ==
    \A t \in Targets :
        LET o == Cur("message", t)
            yielded == IF o = NoObj THEN <<>>
                       ELSE heap[o].gots \o heap[o].items
        IN  yielded = [i \in 1..Completed(t) |-> WriterEnvelope(t, i)]

WritersWitness ==
    \A t \in Targets :
        /\ nsent[t] = WritesEach
        /\ Cur("message", t) # NoObj
        /\ Len(heap[Cur("message", t)].gots) = WritesEach

(* C6, as stated: whenever backend_send or job_send is called without a   *)
(* target keyword, the envelope is enqueued under the coordinator         *)
(* identity, whatever the other keywords are.                             *)
ChannelOf(op) == IF op \in {"backend_send", "backend_recv", "backend_check"}
                 THEN "message" ELSE "job"

Enqueues(w, t) ==
    Items(ChannelOf(call[w].op), t)' =
        Append(Items(ChannelOf(call[w].op), t), arg[w].data.v)

SendWithoutTargetToServer ==
    [][\A w \in Threads :
          (/\ Acted(w, {"aq_put"})
           /\ call[w].op \in {"backend_send", "job_send"}
           /\ call[w].kw.target = None)
          => Enqueues(w, server_identity)]_vars

(* C6, amended: without a target keyword the envelope is enqueued under   *)
(* the coordinator identity when no identity keyword is given either, and *)
(* under the identity keyword's value when one is given.                  *)
SendDefaultTarget ==
    [][\A w \in Threads :
          (/\ Acted(w, {"aq_put"})
           /\ call[w].op \in {"backend_send", "job_send"}
           /\ call[w].kw.target = None)
          => IF call[w].kw.identity = None
             THEN Enqueues(w, server_identity)
             ELSE Enqueues(w, call[w].kw.identity)]_vars

SendDefaultWitness ==
    /\ last.call.op \in {"backend_send", "job_send"}
    /\ last.who # server_identity
    /\ last.call.kw.target = None /\ last.call.kw.identity = None
    /\ last.result = PyBool(TRUE)
    /\ Items(ChannelOf(last.call.op), server_identity) # <<>>
    /\ Items(ChannelOf(last.call.op), last.who) = <<>>

(* C7: backend_recv/job_recv take the envelope from the queue of the      *)
(* driver's own identity on their channel and return, in server mode, the *)
(* sender's identity followed by msg_id, control, command, data (or "{}"  *)
(* for empty data), info, stderr, stdout, and in client mode these seven  *)
(* fields without the identity.                                           *)
Fields(e) ==
    <<e.msg_id, e.control, e.command, IF e.data = "" THEN "{}" ELSE e.data,
      e.info, e.stderr, e.stdout>>

RecvShape ==
    /\ [](last.call.op \in Recvs /\ ~IsRaise(last.result)
          => LET e == last.cres.v[2].v
             IN  last.result = PyObj(IF last.who = server_identity
                                     THEN <<e.identity>> \o Fields(e)
                                     ELSE Fields(e)))
    /\ [][\A w \in Threads :
             (Acted(w, {"gq_get"}) /\ call[w].op \in Recvs)
             => /\ arg[w].target = w
                /\ q[w] = ChannelOf(call[w].op)
                /\ Items(q[w], w) = <<ret'[w].v>> \o Items(q[w], w)']_vars

RecvWitness ==
    /\ last.call.op \in Recvs
    /\ last.who = server_identity
    /\ ~IsRaise(last.result)
    /\ Len(last.result.v) = 8
    /\ last.result.v[1] = "agent-1"
    /\ last.result.v[2] = "m1"

(* C8, as stated: backend_check/job_check with interval = 1 and           *)
(* constant = 1000 that see no data sleep at least 0.2 s and at most      *)
(* about 0.3 s (times in 1/10000 s).                                      *)
DefaultCheck ==
    /\ last.call.op \in DriverChecks
    /\ last.call.interval = 1 /\ last.call.constant = 1000
    /\ last.result = PyBool(FALSE)

DefaultCheckSleepsFifth == DefaultCheck => last.slept \in 2000..3000

(* C8, amended: they sleep at least 1.0 s and less than 1.1 s.            *)
DefaultCheckSleepsSecond == DefaultCheck => last.slept \in 10000..10999

DefaultCheckWitness == DefaultCheck /\ last.slept = 10999

(* C9: a check that is told of data returns true without sleeping and     *)
(* without removing anything; a check that returns false has slept        *)
(* max(interval * constant * 0.001, 0.2) s plus a jitter in [0, 0.1) s.   *)
CheckSleep ==
    /\ [](last.call.op \in DriverChecks /\ ~IsRaise(last.result)
          => /\ last.result = last.cres
             /\ last.result = PyBool(TRUE) => last.slept = 0
             /\ last.result = PyBool(FALSE) =>
                  \E j \in 0..999 :
                      last.slept =
                          j + (IF last.call.interval * last.call.constant * 10
                                  > 2000
                               THEN last.call.interval * last.call.constant * 10
                               ELSE 2000))
    /\ [][\A w \in Threads :
             (call[w].op \in DriverChecks /\ pc'[w] # pc[w])
             => /\ data_queue' = data_queue
                /\ \A k \in Kinds, t \in Targets : Items(k, t)' = Items(k, t)
                /\ pc[w] = "done" =>
                     last'.result =
                         PyBool(Items(ChannelOf(call[w].op), w) # <<>>)]_vars

CheckSleepWitness ==
    /\ last.call.op \in DriverChecks
    /\ last.result = PyBool(TRUE)
    /\ last.slept = 0
    /\ Items(ChannelOf(last.call.op), last.who) # <<>>

(* C10: on a closed MessageServiceClient each of get_message, get_job,    *)
(* put_message, put_job, message_check, job_check and purge_queues raises *)
(* and starts no request; a further close() changes nothing and raises    *)
(* nothing.                                                               *)
ClientOps == {"get_message", "get_job", "put_message", "put_job",
              "message_check", "client_job_check", "purge_queues"}

ClosedClientRaises ==
    [][\A w \in Threads :
          (/\ client[w].exists /\ client[w].closes > 0
           /\ last' # last /\ last'.who = w /\ last'.call.layer = "client")
          => IF last'.call.op = "close"
             THEN /\ last'.result = PyNone
                  /\ client'[w].stub = client[w].stub
                  /\ client'[w].channel = client[w].channel
             ELSE /\ last'.call.op \in ClientOps
                  /\ IsRaise(last'.result)
                  /\ UNCHANGED <<pc, rpc, arg, data_queue, heap>>]_vars

ClosedClientWitness ==
    /\ last.call.op \in ClientOps
    /\ IsRaise(last.result)
    /\ client[last.who].closes = 2
    /\ ~client[last.who].stub

(* C11: when the PurgeQueues RPC fails, purge_queues raises the RpcError   *)
(* to its caller: it returns no value, neither false nor any other.       *)
RpcFailed == last.rres = PyRaise("RpcError")

PurgeFailurePropagates ==
    (last.call.cop = "purge_queues" /\ RpcFailed)
    => last.result = PyRaise("RpcError")

PurgeFailureWitness ==
    /\ last.call.op = "purge_queues" /\ RpcFailed
    /\ IsRaise(last.result)
    /\ client[last.who].stub

(* C12, as stated: when the put RPC of backend_send or job_send fails,    *)
(* the send raises to its caller and does not return True.                *)
DriverSends == {"backend_send", "job_send"}

SendFailureRaises ==
    (last.call.op \in DriverSends /\ RpcFailed) => IsRaise(last.result)

(* C13, as stated: when the GetMessage/GetJob RPC fails on an open        *)
(* client, get_message/get_job raise nothing and hand back the target     *)
(* with an absent envelope.                                               *)
GetOps == {"get_message", "get_job"}

AbsorbingOps == {"put_message", "put_job", "message_check", "job_check"}

FailureReturnsFalse ==
    /\ []((last.call.cop \in AbsorbingOps /\ RpcFailed)
          => /\ last.cres = PyBool(FALSE)
             /\ last.call.layer = "client" => last.result = PyBool(FALSE))
    /\ [][\A w \in Threads :
             (/\ last'.who = w /\ last'.call.cop \in AbsorbingOps
              /\ last'.rres = PyRaise("RpcError")
              /\ (ncalls' # ncalls \/ pc[w] = "done"))
             => /\ client' = client
                /\ client'[w].stub /\ client'[w].channel]_vars

FailureWitness ==
    /\ last.call.layer = "client" /\ last.call.cop \in AbsorbingOps
    /\ RpcFailed /\ last.result = PyBool(FALSE)
    /\ call[last.who].layer = "client"
    /\ call[last.who].cop \in AbsorbingOps
    /\ pc[last.who] \in {"aq_lock", "cq_lock"}

(* C17, as stated: every heartbeat_send of an agent appends one envelope  *)
(* to the coordinator's queue of the message registry and adds nothing to *)
(* the job registry.                                                      *)
Heartbeat(w) == call[w].op = "heartbeat_send" /\ w # server_identity

Inits == {"backend_init", "job_init"}
Closes == {"backend_close", "job_close"}

Initialized(w) ==
    IF Mode(w) = "server" THEN drv_server[w] /\ drv_client[w]
    ELSE drv_client[w]

InitStep(w) ==
    \/ made'[w] # made[w]
    \/ pc[w] = "idle" /\ pc'[w] = "connect"
    \/ last' # last /\ last'.who = w /\ last'.call.op \in Inits

InitIdempotent ==
    [][\A w \in Threads :
          (Initialized(w) /\ InitStep(w))
          => /\ made' = made
             /\ drv_server' = drv_server /\ drv_client' = drv_client
             /\ client' = client
             /\ pc' = pc
             /\ last'.result = PyNone
             /\ UNCHANGED svars]_vars

InitIdempotentWitness ==
    /\ last.who = server_identity /\ last.call.op = "job_init"
    /\ Initialized(server_identity)
    /\ made[server_identity] = [server |-> 1, client |-> 1]
    /\ made["agent-1"].client = 1 /\ Initialized("agent-1")
    /\ \E t \in Targets : Items("message", t) # <<>>

(* C16: backend_close/job_close raise nothing in any state and leave the  *)
(* driver with neither server nor client; an init that follows creates a  *)
(* new server (server mode) and a new connected client, and the calls of  *)
(* that driver reach the stub as they did after the first init.           *)
DataOps == Sends \cup Recvs \cup DriverChecks

CloseThenInit ==
    /\ [](last.call.op \in Closes
          => /\ last.result = PyNone
             /\ ~drv_server[last.who] /\ ~drv_client[last.who])
    /\ [](last.call.op \in Inits
          => /\ last.result = PyNone
             /\ Initialized(last.who)
             /\ client[last.who] = Connected)
    /\ []((last.call.op \in DataOps /\ Initialized(last.who))
          => /\ last.rres # PyNone
             /\ last.result # PyRaise("Exception"))
    /\ [][\A w \in Threads :
             (/\ ~Initialized(w) /\ pc[w] = "idle"
              /\ (pc'[w] = "connect" \/ Initialized(w)'))
             => /\ made'[w].client = made[w].client + 1
                /\ Mode(w) = "server"
                   => made'[w].server = made[w].server + 1]_vars

CloseThenInitWitness ==
    /\ last.who = server_identity /\ last.call.op = "backend_recv"
    /\ ~IsRaise(last.result)
    /\ made[server_identity] = [server |-> 2, client |-> 2]
    /\ made["agent-1"].client = 2

(* C18, as stated: a backend_init/job_init whose channel never becomes    *)
(* READY ends all the same, by raising to its caller.                     *)
InitTerminates ==
    \A w \in Threads : (pc[w] = "connect") ~> (pc[w] = "idle" \/ Serving)

(* C19, as stated: an envelope sent with backend_send/job_send and        *)
(* received by the addressed driver's backend_recv/job_recv comes back    *)
(* with the msg_id, control and command it was sent with, and with its    *)
(* data, or "{}" when the data was absent or empty.                       *)
RoundTrip(w) ==
    /\ pc[w] = "done" /\ call[w].op \in Recvs /\ pc'[w] = "idle"
    /\ last.call.op \in DriverSends
    /\ ChannelOf(last.call.op) = ChannelOf(call[w].op)
    /\ last.call.target = w
    /\ last.rres # PyNone /\ ~IsRaise(last.rres)
    /\ Added(ChannelOf(call[w].op), w) = 1
    /\ Taken(ChannelOf(call[w].op), w) = 1

Received(r, i) == r[Len(r) - 7 + i]

DataBack(kw, r) ==
    /\ Received(r, 4) = (IF kw.data \in {None, ""} THEN "{}" ELSE kw.data)
    /\ Received(r, 4) # None

RoundTripEqual ==
    [][\A w \in Threads :
          RoundTrip(w)
          => /\ ~IsRaise(last'.result)
             /\ Received(last'.result.v, 1) = last.call.kw.msg_id
             /\ Received(last'.result.v, 2) = last.call.kw.control
             /\ Received(last'.result.v, 3) = last.call.kw.command
             /\ DataBack(last.call.kw, last'.result.v)]_vars

(* C19, amended: msg_id, control and command come back as sent, except    *)
(* that one that was absent comes back as the empty text; data as above.  *)
Back(v) == IF v = None THEN "" ELSE v

RoundTripPresent ==
    [][\A w \in Threads :
          RoundTrip(w)
          => /\ ~IsRaise(last'.result)
             /\ Received(last'.result.v, 1) = Back(last.call.kw.msg_id)
             /\ Received(last'.result.v, 2) = Back(last.call.kw.control)
             /\ Received(last'.result.v, 3) = Back(last.call.kw.command)
             /\ DataBack(last.call.kw, last'.result.v)]_vars

RoundTripWitness ==
    /\ last.call.op \in Recvs /\ ~IsRaise(last.result)
    /\ last.who = "agent-1"
    /\ last.result.v = <<"m2", "c", "run", "{}", "", "", "">>

(* C20, as stated: backend_recv/job_recv on an initialized driver whose   *)
(* own queue is empty raise nothing.                                      *)
RecvOnEmptyNoError ==
    (/\ last.call.op \in Recvs
     /\ last.cres = PyObj(<<last.who, PyNone>>))
    => ~IsRaise(last.result)

(* C21, as stated: in every interleaving add_queue raises nothing, and    *)
(* its put goes to the queue the mapping holds for the target, so that    *)
(* the envelope is in the current mapping when add_queue returns.         *)
Puts == {"PutMessage", "PutJob"}

AddQueueNeverFails ==
    \A w \in Threads :
        rpc[w] \in Puts
        => /\ pc[w] = "done" => ~IsRaise(ret[w])
           /\ pc[w] = "aq_put" => ref[w] = Cur(q[w], arg[w].target)

(* C22, as stated: a get_from_queue that runs next to other handlers      *)
(* raises nothing and, past its emptiness test, is never left waiting on  *)
(* a queue that holds nothing.                                            *)
GetNeverWaits ==
    \A w \in Threads :
        rpc[w] \in Gets
        => /\ pc[w] = "done" => ~IsRaise(ret[w])
           /\ pc[w] = "gq_get" => ~QueueEmpty(heap[ref[w]])

(* C23, as stated: a GetMessage/GetJob answers status = true with the     *)
(* oldest envelope of the target's queue, which it removes, when that     *)
(* queue is not empty, and status = false with no change when it is       *)
(* empty; a PutMessage/PutJob answers result = true and appends its       *)
(* envelope to the target's queue; no other queue changes.                *)
OthersKept(k, t) ==
    \A j \in Kinds, u \in Targets :
        <<j, u>> # <<k, t>> => Items(j, u)' = Items(j, u)

Ends(w) == pc[w] # "done" /\ pc'[w] = "done"

HandlerAnswers ==
    [][\A w \in Threads, k \in Kinds, t \in Targets :
          (Ends(w) /\ k = q[w] /\ t = arg[w].target)
          => /\ rpc[w] \in Gets
                => /\ OthersKept(k, t)
                   /\ IF Items(k, t) = <<>>
                      THEN /\ resp'[w] = NoDataResponse(rpc[w], t)
                           /\ Items(k, t)' = <<>>
                      ELSE /\ resp'[w] = PyObj([status |-> TRUE, target |-> t,
                                                data |-> Head(Items(k, t))])
                           /\ Items(k, t)' = Tail(Items(k, t))
             /\ rpc[w] \in Puts
                => /\ OthersKept(k, t)
                   /\ resp'[w] = PyObj([result |-> TRUE])
                   /\ Items(k, t)' = Append(Items(k, t), arg[w].data.v)]_vars

(* C24: the handlers of the message channel work on the message registry  *)
(* alone and those of the job channel on the job registry alone: no step  *)
(* of one changes the other registry's mapping or queues, every queue     *)
(* they look up comes from their own registry, and no queue object        *)
(* belongs to both.                                                       *)
MessageOps == {"GetMessage", "PutMessage", "MessageCheck"}
JobOps == {"GetJob", "PutJob", "JobCheck"}
Other(k) == IF k = "message" THEN "job" ELSE "message"
OwnRegistry(m) == IF m \in MessageOps THEN "message" ELSE "job"

RegistriesIndependent ==
    /\ [](\A t, u \in Targets :
             Cur("message", t) # NoObj => Cur("message", t) # Cur("job", u))
    /\ [][\A w \in Threads, k \in Kinds, t \in Targets :
             (rpc[w] \in MessageOps \cup JobOps /\ pc'[w] # pc[w]
                /\ k = OwnRegistry(rpc[w]) /\ t = arg[w].target)
             => /\ data_queue'[Other(k)] = data_queue[Other(k)]
                /\ \A u \in Targets : Items(Other(k), u)' = Items(Other(k), u)
                /\ ref'[w] \in {NoObj, ref[w], Cur(k, t)}
                /\ ref'[w] # NoObj
                   => \A u \in Targets : ref'[w] # Cur(Other(k), u)]_vars

RegistriesWitness ==
    \E w \in Threads :
        /\ pc[w] = "done" /\ rpc[w] = "GetJob" /\ ret[w].t = "obj"
        /\ Items("message", arg[w].target) # <<>>
        /\ Head(Items("message", arg[w].target)) # ret[w].v
        /\ Taken("message", arg[w].target) = 0
        /\ Taken("job", arg[w].target) = 1

(* C26, as stated: when the PurgeQueues RPC succeeds, purge_queues raises  *)
(* nothing and returns the boolean result the service answered.           *)
PurgeReturnsResult ==
    (last.call.cop = "purge_queues" /\ last.rres.t = "obj")
    => last.result = PyBool(last.rres.v.result)

Created(k) == {r \in Registries : ClassOf(r) = k /\ registry[r] # "absent"}

SingleInstance ==
    /\ \A k \in Kinds : Cardinality(Created(k)) <= 1
    /\ \A w \in Threads :
          q[w] # "-" => q[w] = cls_instance[ClassOf(q[w])]
    /\ \A r \in Registries, t \in Targets :
          r # cls_instance[ClassOf(r)] => Items(r, t) = <<>>

TypeOK ==
    /\ \A r \in Registries, t \in Targets :
          data_queue[r][t] \in ObjIds \cup {NoObj}
    /\ \A w \in Threads : ref[w] \in ObjIds \cup {NoObj}
    /\ \A w \in Threads : q[w] \in Registries \cup {"-"}
    /\ \A k \in Kinds :
          /\ cls_instance[k] \in Created(k) \cup {None}
          /\ cls_instance[k] = None => Created(k) = {}
    /\ \A r \in Registries : registry[r] \in {"absent", "new", "ready"}

====
